---------------------------- MODULE Spec2Model ----------------------------
(***************************************************************************)
(* Dividend discount model calculator: the valuation engine                *)
(* buildDividendSeries (src/src/App.jsx, lines 110-170, and its copies in  *)
(* the other UI variants), and the components that call it: App of         *)
(* src/src/App.jsx and AccessibleDividendCalculator of src/unnamed/        *)
(* part_001, part_002 and part_003.                                        *)
(*                                                                         *)
(* JavaScript numbers are modelled as exact rationals in lowest terms plus *)
(* the values NaN, +/-Infinity and null, so every equality below is an     *)
(* equality of real arithmetic; the rounding of IEEE doubles is not        *)
(* modelled.                                                               *)
(***************************************************************************)
EXTENDS Integers, Sequences, FiniteSets, TLC

(***************************************************************************)
(* Bounds of the model.                                                    *)
(***************************************************************************)
\* D0 ranges over the integers -1 .. MaxD0
MaxD0 == 2
\* the four rates range over the halves k / 2 for k in -1 .. MaxRateNum
MaxRateNum == 2
\* shortYears ranges over the integers -1 .. MaxShortYears
MaxShortYears == 10

(***************************************************************************)
(* JavaScript number values.                                               *)
(***************************************************************************)
Abs(x) == IF x < 0 THEN -x ELSE x

RECURSIVE GCD(_, _)
GCD(a, b) == IF b = 0 THEN a ELSE GCD(b, a % b)

\* the number n/d in lowest terms with a positive denominator (d # 0)
Rat(n, d) ==
    LET g == GCD(Abs(n), Abs(d))
        s == IF d < 0 THEN -1 ELSE 1
    IN [k |-> "num", n |-> (s * n) \div g, d |-> (s * d) \div g]

Num(i) == [k |-> "num", n |-> i, d |-> 1]

NaN == [k |-> "nan", n |-> 0, d |-> 1]

\* +Infinity (s = 1) and -Infinity (s = -1)
Inf(s) == [k |-> "inf", n |-> s, d |-> 1]

Null == [k |-> "null", n |-> 0, d |-> 1]

isNaN(x) == x.k = "nan"

IsNum(x) == x.k = "num"

Sign(x) == IF x.n > 0 THEN 1 ELSE IF x.n < 0 THEN -1 ELSE 0

\* unary minus
Neg(x) == IF x.k = "num" THEN [x EXCEPT !.n = -x.n]
          ELSE IF x.k = "inf" THEN Inf(-x.n)
          ELSE NaN

\* a + b
Add(a, b) ==
    IF a.k = "num" /\ b.k = "num"
    THEN LET g == GCD(a.d, b.d)
             l == (a.d \div g) * b.d
         IN Rat(a.n * (l \div a.d) + b.n * (l \div b.d), l)
    ELSE IF a.k = "inf" /\ b.k = "inf" THEN (IF a.n = b.n THEN a ELSE NaN)
    ELSE IF a.k = "inf" /\ b.k = "num" THEN a
    ELSE IF a.k = "num" /\ b.k = "inf" THEN b
    ELSE NaN

\* a - b
Sub(a, b) == Add(a, Neg(b))

\* a * b
Mul(a, b) ==
    IF a.k = "num" /\ b.k = "num"
    THEN LET g1 == GCD(Abs(a.n), b.d)
             g2 == GCD(Abs(b.n), a.d)
         IN Rat((a.n \div g1) * (b.n \div g2), (a.d \div g2) * (b.d \div g1))
    ELSE IF a.k \in {"num", "inf"} /\ b.k \in {"num", "inf"}
    THEN (IF Sign(a) * Sign(b) = 0 THEN NaN ELSE Inf(Sign(a) * Sign(b)))
    ELSE NaN

\* a / b
Div(a, b) ==
    IF a.k = "num" /\ b.k = "num"
    THEN IF b.n = 0
         THEN (IF a.n = 0 THEN NaN ELSE Inf(Sign(a)))
         ELSE Mul(a, Rat(b.d, b.n))
    ELSE IF a.k = "inf" /\ b.k = "num"
    THEN Inf(IF Sign(b) < 0 THEN -a.n ELSE a.n)
    ELSE IF a.k = "num" /\ b.k = "inf" THEN Num(0)
    ELSE NaN

\* Math.pow(b, e) for an integer exponent e
RECURSIVE Pow(_, _)
Pow(b, e) == IF e = 0 THEN Num(1)
             ELSE IF e > 0 THEN Mul(b, Pow(b, e - 1))
             ELSE Div(Num(1), Pow(b, -e))

\* the comparisons of two numbers
Lt(a, b) == a.n * b.d < b.n * a.d

Le(a, b) == a.n * b.d <= b.n * a.d

Gt(a, b) == Lt(b, a)

Ge(a, b) == Le(b, a)

Zero == Num(0)

One == Num(1)

(***************************************************************************)
(* Number.prototype.toString for a non-negative integer.                   *)
(***************************************************************************)
Digit(i) == CASE i = 0 -> "0" [] i = 1 -> "1" [] i = 2 -> "2" [] i = 3 -> "3"
              [] i = 4 -> "4" [] i = 5 -> "5" [] i = 6 -> "6" [] i = 7 -> "7"
              [] i = 8 -> "8" [] i = 9 -> "9"

RECURSIVE toString(_)
toString(i) == IF i < 10 THEN Digit(i) ELSE toString(i \div 10) \o Digit(i % 10)

(***************************************************************************)
(* The inputs of one call.                                                 *)
(***************************************************************************)
D0Values == {Num(i) : i \in -1 .. MaxD0}

RateValues == {Rat(i, 2) : i \in -1 .. MaxRateNum}

ShortYearsValues == -1 .. MaxShortYears

(***************************************************************************)
(* buildDividendSeries, statement by statement.                            *)
(***************************************************************************)
VARIABLES
    D0, required, gConst, gShort, gLong, shortYears,   \* the arguments
    pc,                     \* the statement the call is at
    errors,                 \* const errors
    priceNoGrowth, priceConstantGrowth, priceChangingGrowth,
    pvHighGrowth, t,        \* the high-growth loop
    data, year,             \* the rows and the row loop
    ui,                     \* the state of the component that calls it
    shown                   \* the text of the price panels on the page

vars == <<D0, required, gConst, gShort, gLong, shortYears, pc, errors,
          priceNoGrowth, priceConstantGrowth, priceChangingGrowth,
          pvHighGrowth, t, data, year, ui, shown>>

inputs == <<D0, required, gConst, gShort, gLong, shortYears>>

horizonYears == 10

\* the component and what it has rendered
page == <<ui, shown>>

\* the four components: App.jsx and the three of part_001, part_002, part_003
Variants == {"App", "part_001", "part_002", "part_003"}

\* the components with a model selector
WithSelector == {"App", "part_003"}

\* the keys of MODEL_CONFIG
Models == {"constant", "growth", "changing"}

\* the state of a freshly constructed component
useStateDefaults(v) ==
    [variant |-> v,
     D0 |-> Num(5), req |-> Num(10), gConst |-> Num(5), gShort |-> Num(5),
     gLong |-> Num(3), shortYears |-> Num(5),
     selectedModel |-> IF v \in WithSelector THEN "constant" ELSE "none"]

\* nothing of the results is on the page
NothingShown ==
    [constant |-> <<>>, growth |-> <<>>, changing |-> <<>>,
     errorList |-> {}, validationRequired |-> FALSE, chart |-> FALSE,
     tooltip |-> <<>>]

\* the messages of the validation map
ErrorMessage ==
    [gConst   |-> "Growth rate must be less than required return",
     gLong    |-> "Long-term growth must be less than required return",
     D0       |-> "Dividend must be positive",
     required |-> "Required return must be positive"]

\* a faulty variant: D0 < 0 in place of D0 <= 0
ViolatedFields_StrictD0(d0, req, gc, gl) ==
    (IF Ge(gc, req) THEN {"gConst"} ELSE {})
    \cup (IF Ge(gl, req) THEN {"gLong"} ELSE {})
    \cup (IF Lt(d0, Zero) THEN {"D0"} ELSE {})
    \cup (IF Le(req, Zero) THEN {"required"} ELSE {})

\* the fields the four if statements test
ViolatedFields(d0, req, gc, gl) ==
    (IF Ge(gc, req) THEN {"gConst"} ELSE {})
    \cup (IF Ge(gl, req) THEN {"gLong"} ELSE {})
    \cup (IF Le(d0, Zero) THEN {"D0"} ELSE {})
    \cup (IF Le(req, Zero) THEN {"required"} ELSE {})

\* const errors = {}; if (...) errors.<field> = "..."
ValidationErrors(d0, req, gc, gl) ==
    [f \in ViolatedFields(d0, req, gc, gl) |-> ErrorMessage[f]]

\* a faulty variant: required >= 0 in place of required > 0
PriceNoGrowthOf_GeZero(d0, req) ==
    IF Ge(req, Zero) THEN Div(d0, req) ELSE NaN

\* required > 0 ? D0 / required : NaN
PriceNoGrowthOf(d0, req) ==
    IF Gt(req, Zero) THEN Div(d0, req) ELSE NaN

\* a faulty variant: the test gConst >= 0 is left out
PriceConstantGrowthOf_NoSign(d0, req, gc) ==
    IF Lt(gc, req)
    THEN Div(Mul(d0, Add(One, gc)), Sub(req, gc))
    ELSE NaN

\* a faulty variant: gConst <= required in place of gConst < required
PriceConstantGrowthOf_Le(d0, req, gc) ==
    IF Le(gc, req) /\ Ge(gc, Zero)
    THEN Div(Mul(d0, Add(One, gc)), Sub(req, gc))
    ELSE NaN

\* (gConst < required && gConst >= 0) ? (D0 * (1 + gConst)) / (required - gConst) : NaN
PriceConstantGrowthOf(d0, req, gc) ==
    IF Lt(gc, req) /\ Ge(gc, Zero)
    THEN Div(Mul(d0, Add(One, gc)), Sub(req, gc))
    ELSE NaN

\* a faulty variant: the test gShort >= 0 is left out
ChangingGrowthGuard_NoShort(req, gs, gl) ==
    Lt(gl, req) /\ Ge(gl, Zero)

\* a faulty variant: gLong <= required in place of gLong < required
ChangingGrowthGuard_Le(req, gs, gl) ==
    Le(gl, req) /\ Ge(gl, Zero) /\ Ge(gs, Zero)

\* if (gLong < required && gLong >= 0 && gShort >= 0)
ChangingGrowthGuard(req, gs, gl) ==
    Lt(gl, req) /\ Ge(gl, Zero) /\ Ge(gs, Zero)

\* a faulty variant: the dividend of year t discounted over t - 1 years
DiscountedDividend_OffByOne(d0, req, gs, i) ==
    LET dividend == Mul(d0, Pow(Add(One, gs), i))
    IN Div(dividend, Pow(Add(One, req), i - 1))

\* one turn of the high-growth loop: dividend / Math.pow(1 + required, t)
DiscountedDividend(d0, req, gs, i) ==
    LET dividend == Mul(d0, Pow(Add(One, gs), i))
    IN Div(dividend, Pow(Add(One, req), i))

\* a faulty variant: the terminal dividend not grown by 1 + gLong
PvTerminalValue_NoLongGrowth(d0, req, gs, gl, sy) ==
    LET terminalDividend == Mul(d0, Pow(Add(One, gs), sy))
        terminalValue == Div(terminalDividend, Sub(req, gl))
    IN Div(terminalValue, Pow(Add(One, req), sy))

\* pvTerminalValue
PvTerminalValue(d0, req, gs, gl, sy) ==
    LET terminalDividend == Mul(Mul(d0, Pow(Add(One, gs), sy)), Add(One, gl))
        terminalValue == Div(terminalDividend, Sub(req, gl))
    IN Div(terminalValue, Pow(Add(One, req), sy))

\* a faulty variant: t < shortYears
HighGrowthCond_Strict(i, sy) == i < sy

\* t <= shortYears, the condition of the high-growth loop
HighGrowthCond(i, sy) == i <= sy

\* a faulty variant: year < horizonYears
RowCond_Strict(y) == y < horizonYears

\* year <= horizonYears, the condition of the row loop
RowCond(y) == y <= horizonYears

\* a faulty variant: the constant-growth price of row 0 is not negated
Row0_Unsigned(pNG, pCG, pChG) ==
    [year |-> 0,
     yearLabel |-> "0",
     constDiv |-> Neg(pNG),
     constGrow |-> IF isNaN(pCG) THEN Null ELSE pCG,
     changingGrowth |-> IF isNaN(pChG) THEN Null ELSE Neg(pChG)]

\* the first element of data
Row0(pNG, pCG, pChG) ==
    [year |-> 0,
     yearLabel |-> "0",
     constDiv |-> Neg(pNG),
     constGrow |-> IF isNaN(pCG) THEN Null ELSE Neg(pCG),
     changingGrowth |-> IF isNaN(pChG) THEN Null ELSE Neg(pChG)]

\* a faulty variant: the dividends after the high-growth years start again
\* from D0
ChangingGrowthDiv_NoCarry(y, d0, gs, gl, sy, pChG) ==
    IF ~isNaN(pChG)
    THEN IF y <= sy
         THEN Mul(d0, Pow(Add(One, gs), y))
         ELSE Mul(d0, Pow(Add(One, gl), y - sy))
    ELSE Null

\* changingGrowthDiv of one turn of the row loop
ChangingGrowthDiv(y, d0, gs, gl, sy, pChG) ==
    IF ~isNaN(pChG)
    THEN IF y <= sy
         THEN Mul(d0, Pow(Add(One, gs), y))
         ELSE Mul(Mul(d0, Pow(Add(One, gs), sy)), Pow(Add(One, gl), y - sy))
    ELSE Null

\* a faulty variant: the dividend of year t grown over t - 1 years
ConstGrowDiv_OffByOne(y, d0, gc, pCG) ==
    IF isNaN(pCG) THEN Null ELSE Mul(d0, Pow(Add(One, gc), y - 1))

\* constGrow of one turn of the row loop
ConstGrowDiv(y, d0, gc, pCG) ==
    IF isNaN(pCG) THEN Null ELSE Mul(d0, Pow(Add(One, gc), y))

\* a faulty variant: no dividend in the first column either when the
\* constant-growth price is NaN
Row_CrossSuppressed(y, d0, gc, gs, gl, sy, pCG, pChG) ==
    [year |-> y,
     yearLabel |-> toString(y),
     constDiv |-> IF isNaN(pCG) THEN Null ELSE d0,
     constGrow |-> ConstGrowDiv(y, d0, gc, pCG),
     changingGrowth |-> ChangingGrowthDiv(y, d0, gs, gl, sy, pChG)]

\* the row one turn of the row loop pushes
Row(y, d0, gc, gs, gl, sy, pCG, pChG) ==
    [year |-> y,
     yearLabel |-> toString(y),
     constDiv |-> d0,
     constGrow |-> ConstGrowDiv(y, d0, gc, pCG),
     changingGrowth |-> ChangingGrowthDiv(y, d0, gs, gl, sy, pChG)]

\* the high-growth loop from turn i on, acc being pvHighGrowth so far
RECURSIVE PvHighGrowthLoop(_, _, _, _, _, _)
PvHighGrowthLoop(d0, req, gs, sy, i, acc) ==
    IF HighGrowthCond(i, sy)
    THEN PvHighGrowthLoop(d0, req, gs, sy, i + 1,
                          Add(acc, DiscountedDividend(d0, req, gs, i)))
    ELSE acc

\* priceChangingGrowth of a whole call
PriceChangingGrowthOf(d0, req, gs, gl, sy) ==
    IF ChangingGrowthGuard(req, gs, gl)
    THEN Add(PvHighGrowthLoop(d0, req, gs, sy, 1, Zero),
             PvTerminalValue(d0, req, gs, gl, sy))
    ELSE NaN

\* the row loop from year y on, acc being data so far
RECURSIVE RowLoop(_, _, _, _, _, _, _, _, _)
RowLoop(y, acc, d0, gc, gs, gl, sy, pCG, pChG) ==
    IF RowCond(y)
    THEN RowLoop(y + 1, Append(acc, Row(y, d0, gc, gs, gl, sy, pCG, pChG)),
                 d0, gc, gs, gl, sy, pCG, pChG)
    ELSE acc

\* the value a whole call returns
buildDividendSeries(d0, req, gc, gs, gl, sy) ==
    LET pNG == PriceNoGrowthOf(d0, req)
        pCG == PriceConstantGrowthOf(d0, req, gc)
        pChG == PriceChangingGrowthOf(d0, req, gs, gl, sy)
    IN [data |-> RowLoop(1, <<Row0(pNG, pCG, pChG)>>,
                         d0, gc, gs, gl, sy, pCG, pChG),
        priceNoGrowth |-> pNG,
        priceConstantGrowth |-> pCG,
        priceChangingGrowth |-> pChG,
        errors |-> ValidationErrors(d0, req, gc, gl)]

Init ==
    /\ D0 \in D0Values
    /\ required \in RateValues
    /\ gConst \in RateValues
    /\ gShort \in RateValues
    /\ gLong \in RateValues
    /\ shortYears \in ShortYearsValues
    /\ pc = "validate"
    /\ errors = ValidationErrors(One, One, Zero, Zero)
    /\ priceNoGrowth = NaN
    /\ priceConstantGrowth = NaN
    /\ priceChangingGrowth = NaN
    /\ pvHighGrowth = Zero
    /\ t = 1
    /\ data = <<>>
    /\ year = 1
    /\ ui = useStateDefaults("App")
    /\ shown = NothingShown

\* lines 113-117
Validate ==
    /\ pc = "validate"
    /\ errors' = ValidationErrors(D0, required, gConst, gLong)
    /\ pc' = "prices"
    /\ UNCHANGED <<page, inputs, priceNoGrowth, priceConstantGrowth,
                   priceChangingGrowth, pvHighGrowth, t, data, year>>

\* a faulty variant: pvHighGrowth lives outside the function and is not set
\* to 0 by the call
Prices_NoReset ==
    /\ pc = "prices"
    /\ priceNoGrowth' = PriceNoGrowthOf(D0, required)
    /\ priceConstantGrowth' = PriceConstantGrowthOf(D0, required, gConst)
    /\ priceChangingGrowth' = NaN
    /\ t' = 1
    /\ pc' = IF ChangingGrowthGuard(required, gShort, gLong)
             THEN "loop" ELSE "row0"
    /\ UNCHANGED <<page, inputs, errors, pvHighGrowth, data, year>>

\* lines 119-123
Prices ==
    /\ pc = "prices"
    /\ priceNoGrowth' = PriceNoGrowthOf(D0, required)
    /\ priceConstantGrowth' = PriceConstantGrowthOf(D0, required, gConst)
    /\ priceChangingGrowth' = NaN
    /\ pvHighGrowth' = Zero
    /\ t' = 1
    /\ pc' = IF ChangingGrowthGuard(required, gShort, gLong)
             THEN "loop" ELSE "row0"
    /\ UNCHANGED <<page, inputs, errors, data, year>>

\* lines 125-128, one turn
HighGrowthStep ==
    /\ pc = "loop"
    /\ HighGrowthCond(t, shortYears)
    /\ pvHighGrowth' = Add(pvHighGrowth,
                           DiscountedDividend(D0, required, gShort, t))
    /\ t' = t + 1
    /\ UNCHANGED <<page, inputs, pc, errors, priceNoGrowth,
                   priceConstantGrowth,
                   priceChangingGrowth, data, year>>

\* lines 130-134, once the loop is left
Terminal ==
    /\ pc = "loop"
    /\ ~HighGrowthCond(t, shortYears)
    /\ priceChangingGrowth' =
           Add(pvHighGrowth,
               PvTerminalValue(D0, required, gShort, gLong, shortYears))
    /\ pc' = "row0"
    /\ UNCHANGED <<page, inputs, errors, priceNoGrowth, priceConstantGrowth,
                   pvHighGrowth, t, data, year>>

\* lines 137-145
BuildRow0 ==
    /\ pc = "row0"
    /\ data' = <<Row0(priceNoGrowth, priceConstantGrowth, priceChangingGrowth)>>
    /\ year' = 1
    /\ pc' = "rows"
    /\ UNCHANGED <<page, inputs, errors, priceNoGrowth, priceConstantGrowth,
                   priceChangingGrowth, pvHighGrowth, t>>

\* lines 147-167, one turn
PushRow ==
    /\ pc = "rows"
    /\ RowCond(year)
    /\ data' = Append(data, Row(year, D0, gConst, gShort, gLong, shortYears,
                                priceConstantGrowth, priceChangingGrowth))
    /\ year' = year + 1
    /\ UNCHANGED <<page, inputs, pc, errors, priceNoGrowth,
                   priceConstantGrowth,
                   priceChangingGrowth, pvHighGrowth, t>>

\* line 169
Return ==
    /\ pc = "rows"
    /\ ~RowCond(year)
    /\ pc' = "done"
    /\ UNCHANGED <<page, inputs, errors, priceNoGrowth, priceConstantGrowth,
                   priceChangingGrowth, pvHighGrowth, t, data, year>>

Next ==
    \/ Validate
    \/ Prices
    \/ HighGrowthStep
    \/ Terminal
    \/ BuildRow0
    \/ PushRow
    \/ Return

Spec == Init /\ [][Next]_vars

(***************************************************************************)
(* One call after another: a new call starts once the last has returned.   *)
(* The locals of a call are what the last call left until the call's own   *)
(* statements set them.                                                    *)
(***************************************************************************)
\* shortYears of these calls ranges over 0 .. MaxCallYears
MaxCallYears == 2

CallD0Values == {One, Num(2)}

CallRequiredValues == {Rat(1, 2), One}

CallGConstValues == {Rat(-1, 2), Rat(1, 2)}

CallGShortValues == {Zero, One}

CallGLongValues == {Zero, Rat(1, 2)}

CallShortYearsValues == 0 .. MaxCallYears

InitCalls ==
    /\ D0 \in CallD0Values
    /\ required \in CallRequiredValues
    /\ gConst \in CallGConstValues
    /\ gShort \in CallGShortValues
    /\ gLong \in CallGLongValues
    /\ shortYears \in CallShortYearsValues
    /\ pc = "validate"
    /\ errors = ValidationErrors(One, One, Zero, Zero)
    /\ priceNoGrowth = NaN
    /\ priceConstantGrowth = NaN
    /\ priceChangingGrowth = NaN
    /\ pvHighGrowth = Zero
    /\ t = 1
    /\ data = <<>>
    /\ year = 1
    /\ ui = useStateDefaults("App")
    /\ shown = NothingShown

\* line 110, entered again
Call ==
    /\ pc = "done"
    /\ D0' \in CallD0Values
    /\ required' \in CallRequiredValues
    /\ gConst' \in CallGConstValues
    /\ gShort' \in CallGShortValues
    /\ gLong' \in CallGLongValues
    /\ shortYears' \in CallShortYearsValues
    /\ pc' = "validate"
    /\ UNCHANGED <<page, errors, priceNoGrowth, priceConstantGrowth,
                   priceChangingGrowth, pvHighGrowth, t, data, year>>

NextCalls ==
    \/ Validate
    \/ Prices
    \/ HighGrowthStep
    \/ Terminal
    \/ BuildRow0
    \/ PushRow
    \/ Return
    \/ Call

SpecCalls == InitCalls /\ [][NextCalls]_vars

(***************************************************************************)
(* The components that call buildDividendSeries: App of src/src/App.jsx    *)
(* and AccessibleDividendCalculator of part_001, part_002 and part_003.    *)
(* The text of a field is a sequence of characters.                        *)
(***************************************************************************)
\* the field "High Growth Years" is typed with the years -1 .. MaxTypedYears
MaxTypedYears == 2

DigitChars == {"0", "1", "2", "3", "4", "5", "6", "7", "8", "9"}

DigitValue(c) == CHOOSE i \in 0 .. 9 : Digit(i) = c

IsDigits(s) == Len(s) >= 1 /\ \A i \in 1 .. Len(s) : s[i] \in DigitChars

RECURSIVE DigitsValue(_)
DigitsValue(s) ==
    IF s = <<>> THEN 0
    ELSE 10 * DigitsValue(SubSeq(s, 1, Len(s) - 1)) + DigitValue(s[Len(s)])

Unsigned(s) == IF s # <<>> /\ s[1] = "-" THEN Tail(s) ELSE s

\* a valid floating-point number: a sign, digits, a fraction (no exponent,
\* no fraction without a whole part in this model)
ValidFloat(s) ==
    LET u == Unsigned(s)
    IN \/ IsDigits(u)
       \/ \E i \in 1 .. Len(u) : /\ u[i] = "."
                                 /\ IsDigits(SubSeq(u, 1, i - 1))
                                 /\ IsDigits(SubSeq(u, i + 1, Len(u)))

\* the number a valid text denotes
FloatValue(s) ==
    LET u == Unsigned(s)
        v == IF IsDigits(u) THEN Num(DigitsValue(u))
             ELSE LET i == CHOOSE j \in 1 .. Len(u) : u[j] = "."
                      frac == SubSeq(u, i + 1, Len(u))
                  IN Rat(DigitsValue(SubSeq(u, 1, i - 1)) * 10 ^ Len(frac)
                             + DigitsValue(frac),
                         10 ^ Len(frac))
    IN IF u = s THEN v ELSE Neg(v)

\* e.target.value of <input type="number">: the text when it is a valid
\* number, the empty string otherwise
TargetValue(text) == IF ValidFloat(text) THEN text ELSE <<>>

\* +s
ToNumber(s) ==
    IF s = <<>> THEN Num(0)
    ELSE IF ValidFloat(s) THEN FloatValue(s)
    ELSE NaN

\* parseFloat(s): the number of the longest prefix that is one
parseFloat(s) ==
    LET ks == {k \in 1 .. Len(s) : ValidFloat(SubSeq(s, 1, k))}
    IN IF ks = {} THEN NaN
       ELSE FloatValue(SubSeq(s, 1, CHOOSE k \in ks : \A j \in ks : j <= k))

\* x || 0
OrZero(x) == IF isNaN(x) \/ x = Num(0) THEN Num(0) ELSE x

\* what the onChange handler of a field hands to the state setter
onChange(v, text) ==
    IF v = "App" THEN ToNumber(TargetValue(text))
    ELSE OrZero(parseFloat(TargetValue(text)))

RECURSIVE Decimal(_)
Decimal(i) ==
    IF i < 10 THEN <<Digit(i)>> ELSE Decimal(i \div 10) \o <<Digit(i % 10)>>

\* the text of a whole number
SignedDecimal(i) == IF i < 0 THEN <<"-">> \o Decimal(-i) ELSE Decimal(i)

\* the texts typed in the six fields
TypedD0 == {<<>>, <<"0", ".", "5">>}

TypedReq == {<<>>, <<"5", "0">>}

TypedGConst == {<<"0">>, <<"-", "5", "0">>}

TypedGShort == {<<"1", "0", "0">>, <<"-", "5", "0">>}

TypedGLong == {<<"-">>, <<"5", "0">>}

TypedShortYears == {<<>>} \cup {SignedDecimal(i) : i \in -1 .. MaxTypedYears}

\* a faulty variant: gLong is passed as the percentage
EngineArgs_NoPercent(u) ==
    [D0 |-> u.D0,
     required |-> Div(u.req, Num(100)),
     gConst |-> Div(u.gConst, Num(100)),
     gShort |-> Div(u.gShort, Num(100)),
     gLong |-> u.gLong,
     shortYears |-> u.shortYears]

\* the argument of buildDividendSeries in useMemo
EngineArgs(u) ==
    [D0 |-> u.D0,
     required |-> Div(u.req, Num(100)),
     gConst |-> Div(u.gConst, Num(100)),
     gShort |-> Div(u.gShort, Num(100)),
     gLong |-> Div(u.gLong, Num(100)),
     shortYears |-> u.shortYears]

\* a faulty variant: shortYears is missing from the dependencies
UseMemoDeps_NoYears(u) == <<u.D0, u.req, u.gConst, u.gShort, u.gLong>>

\* the dependencies of useMemo
UseMemoDeps(u) ==
    <<u.D0, u.req, u.gConst, u.gShort, u.gLong, u.shortYears>>

\* the call of useMemo; the years of this model are whole (x.d = 1), and
\* the engine of this model counts them as an integer
Results(u) ==
    LET a == EngineArgs(u)
    IN buildDividendSeries(a.D0, a.required, a.gConst, a.gShort, a.gLong,
                           a.shortYears.n)

ThreeDigits(n) == Digit(n \div 100) \o Digit((n \div 10) % 10) \o Digit(n % 10)

\* the whole part with a comma between groups of three digits
RECURSIVE Grouped(_)
Grouped(n) ==
    IF n < 1000 THEN toString(n)
    ELSE Grouped(n \div 1000) \o "," \o ThreeDigits(n % 1000)

\* |x| in cents, to the nearest cent, a half away from zero
Cents(x) == (2 * 100 * Abs(x.n) + x.d) \div (2 * x.d)

\* Intl.NumberFormat("en-US", {style: "currency", currency: "USD"}).format(x)
\* of a number or NaN
fmtUSD(x) ==
    IF isNaN(x) THEN "$NaN"
    ELSE (IF x.n < 0 THEN "-" ELSE "") \o "$"
         \o Grouped(Cents(x) \div 100) \o "."
         \o Digit((Cents(x) % 100) \div 10) \o Digit(Cents(x) % 10)

\* isFinite(x), of a number value or null
isFinite(x) == x.k \in {"num", "null"}

getAllPrices(r) ==
    [constant |-> r.priceNoGrowth,
     growth |-> r.priceConstantGrowth,
     changing |-> r.priceChangingGrowth]

hasErrors(r) == DOMAIN r.errors # {}

\* a faulty variant: the test of the chart tooltip, price ? ... : "Invalid"
PanelText_Truthy(v, m, price) ==
    IF ~isNaN(price) /\ price # Num(0) THEN fmtUSD(price) ELSE "Invalid"

\* the text of the price panel of model m
PanelText(v, m, price) ==
    IF v \in {"part_001", "part_002"} /\ m # "constant"
    THEN IF isNaN(price) THEN "Invalid" ELSE fmtUSD(price)
    ELSE IF isFinite(price) THEN fmtUSD(price) ELSE "Invalid"

\* the price panel of model m is on the page
PanelRendered(u, r, m) ==
    /\ u.variant = "App" => ~hasErrors(r)
    /\ u.variant \in WithSelector => u.selectedModel \in {"all", m}

\* the price panels of a render: no text, or the one text of the panel
PricePanels(u, r) ==
    [m \in Models |->
        IF PanelRendered(u, r, m)
        THEN <<PanelText(u.variant, m, getAllPrices(r)[m])>>
        ELSE <<>>]

\* MODEL_CONFIG[m].dataKey
dataKey ==
    [constant |-> "constDiv", growth |-> "constGrow",
     changing |-> "changingGrowth"]

\* a faulty variant: the chart is on the page whatever the validation map
ChartRendered_Always(u, r) == TRUE

\* the chart is on the page
ChartRendered(u, r) == u.variant = "App" => ~hasErrors(r)

\* the columns of data that have a <Bar>
Bars(u) ==
    IF u.variant \in WithSelector /\ u.selectedModel # "all"
    THEN {dataKey[u.selectedModel]}
    ELSE {dataKey[m] : m \in Models}

\* Math.abs(x)
MathAbs(x) ==
    IF x.k = "num" THEN [x EXCEPT !.n = Abs(x.n)]
    ELSE IF x.k = "inf" THEN Inf(1)
    ELSE IF x.k = "null" THEN Num(0)
    ELSE NaN

\* the condition of value ? ... : ..., of a number value or null
Truthy(x) == x.k = "inf" \/ (x.k = "num" /\ x.n # 0)

\* the formatter of <Tooltip>: value ? fmtUSD(Math.abs(value)) : 'Invalid'
TooltipText(value) ==
    IF Truthy(value) THEN fmtUSD(MathAbs(value)) ELSE "Invalid"

\* what the formatter gives for each cell of a bar of the chart
Tooltips(u, r) ==
    IF ChartRendered(u, r)
    THEN [i \in 1 .. Len(r.data) |->
             [k \in Bars(u) |-> TooltipText(r.data[i][k])]]
    ELSE <<>>

\* a render: the price panels, the list of validation messages, the card
\* "Validation Required", the chart and its tooltips
Render(u, r) ==
    PricePanels(u, r)
    @@ [errorList |-> {r.errors[f] : f \in DOMAIN r.errors},
        validationRequired |-> u.variant = "App" /\ hasErrors(r),
        chart |-> ChartRendered(u, r),
        tooltip |-> Tooltips(u, r)]

\* what the last call of buildDividendSeries returned
Output ==
    [data |-> data,
     priceNoGrowth |-> priceNoGrowth,
     priceConstantGrowth |-> priceConstantGrowth,
     priceChangingGrowth |-> priceChangingGrowth,
     errors |-> errors]

\* The components start from the first render after each of the four rates
\* has been typed once, everything else being as constructed: the results of
\* the rates of useState (10, 5, 5 and 3 per cent) need powers of 21/20
\* beyond the integers of the model checker.
InitUI ==
    /\ \E v \in Variants, r \in TypedReq, gc \in TypedGConst,
          gs \in TypedGShort, gl \in TypedGLong :
          ui = [useStateDefaults(v) EXCEPT !.req = onChange(v, r),
                                           !.gConst = onChange(v, gc),
                                           !.gShort = onChange(v, gs),
                                           !.gLong = onChange(v, gl)]
    /\ D0 = EngineArgs(ui).D0
    /\ required = EngineArgs(ui).required
    /\ gConst = EngineArgs(ui).gConst
    /\ gShort = EngineArgs(ui).gShort
    /\ gLong = EngineArgs(ui).gLong
    /\ shortYears = EngineArgs(ui).shortYears.n
    /\ pc = "done"
    /\ pvHighGrowth = Zero
    /\ t = 1
    /\ year = 1
    /\ \E results \in {Results(ui)} :
          /\ errors = results.errors
          /\ priceNoGrowth = results.priceNoGrowth
          /\ priceConstantGrowth = results.priceConstantGrowth
          /\ priceChangingGrowth = results.priceChangingGrowth
          /\ data = results.data
          /\ shown = Render(ui, results)

\* a state setter and the render that follows it: useMemo calls
\* buildDividendSeries when a dependency has changed and keeps the results of
\* the render before when none has; the call runs to its end within the
\* render (its locals pvHighGrowth, t and year are gone when it returns)
SetState(u) ==
    /\ pc = "done"
    /\ ui' = u
    /\ IF UseMemoDeps(u) # UseMemoDeps(ui)
       THEN /\ D0' = EngineArgs(u).D0
            /\ required' = EngineArgs(u).required
            /\ gConst' = EngineArgs(u).gConst
            /\ gShort' = EngineArgs(u).gShort
            /\ gLong' = EngineArgs(u).gLong
            /\ shortYears' = EngineArgs(u).shortYears.n
       ELSE UNCHANGED inputs
    /\ \E results \in {IF UseMemoDeps(u) # UseMemoDeps(ui)
                        THEN Results(u) ELSE Output} :
          /\ errors' = results.errors
          /\ priceNoGrowth' = results.priceNoGrowth
          /\ priceConstantGrowth' = results.priceConstantGrowth
          /\ priceChangingGrowth' = results.priceChangingGrowth
          /\ data' = results.data
          /\ shown' = Render(u, results)
    /\ UNCHANGED <<pc, pvHighGrowth, t, year>>

setD0 ==
    \E text \in TypedD0 :
        SetState([ui EXCEPT !.D0 = onChange(ui.variant, text)])

setReq ==
    \E text \in TypedReq :
        SetState([ui EXCEPT !.req = onChange(ui.variant, text)])

setGConst ==
    \E text \in TypedGConst :
        SetState([ui EXCEPT !.gConst = onChange(ui.variant, text)])

setGShort ==
    \E text \in TypedGShort :
        SetState([ui EXCEPT !.gShort = onChange(ui.variant, text)])

setGLong ==
    \E text \in TypedGLong :
        SetState([ui EXCEPT !.gLong = onChange(ui.variant, text)])

setShortYears ==
    \E text \in TypedShortYears :
        SetState([ui EXCEPT !.shortYears = onChange(ui.variant, text)])

\* a faulty variant: a button of the selector also puts the years of high
\* growth back to 5
setSelectedModel_AlsoYears ==
    /\ ui.variant \in WithSelector
    /\ \E m \in Models \cup {"all"} :
          SetState([ui EXCEPT !.selectedModel = m, !.shortYears = Num(5)])

\* a button of the model selector
setSelectedModel ==
    /\ ui.variant \in WithSelector
    /\ \E m \in Models \cup {"all"} :
          SetState([ui EXCEPT !.selectedModel = m])

NextUI ==
    \/ setD0
    \/ setReq
    \/ setGConst
    \/ setGShort
    \/ setGLong
    \/ setShortYears
    \/ setSelectedModel

SpecUI == InitUI /\ [][NextUI]_vars

\* the call has returned
Returned == pc = "done"

(***************************************************************************)
(* Properties of the value buildDividendSeries returns.                    *)
(***************************************************************************)
Fields == {"D0", "required", "gConst", "gLong"}

\* the rows 1 .. horizonYears of data, as indices of the sequence
LaterRows == 2 .. (horizonYears + 1)

\* C1: priceNoGrowth is D0 / required when required > 0 and NaN when
\* required <= 0; D0 = 5 and required = 0.10 give 50.
C1_NoGrowthPrice ==
    /\ Returned /\ Gt(required, Zero) =>
           /\ IsNum(priceNoGrowth)
           /\ Mul(priceNoGrowth, required) = D0
    /\ Returned /\ Le(required, Zero) => isNaN(priceNoGrowth)
    /\ PriceNoGrowthOf(Num(5), Rat(1, 10)) = Num(50)

C1_Witness ==
    /\ Returned
    /\ D0 = Num(2)
    /\ required = Rat(1, 2)
    /\ priceNoGrowth = Num(4)

\* C2: priceConstantGrowth is D0 * (1 + gConst) / (required - gConst) exactly
\* when 0 <= gConst < required and NaN for every other input; D0 = 5,
\* required = 0.10 and gConst = 0.05 give 105.
C2_ConstantGrowthPrice ==
    /\ Returned /\ Le(Zero, gConst) /\ Lt(gConst, required) =>
           /\ IsNum(priceConstantGrowth)
           /\ Mul(priceConstantGrowth, Sub(required, gConst))
                  = Mul(D0, Add(One, gConst))
    /\ Returned /\ (Lt(gConst, Zero) \/ Ge(gConst, required)) =>
           isNaN(priceConstantGrowth)
    /\ PriceConstantGrowthOf(Num(5), Rat(1, 10), Rat(1, 20)) = Num(105)

C2_Witness ==
    /\ Returned
    /\ D0 = Num(2)
    /\ required = One
    /\ gConst = Rat(1, 2)
    /\ priceConstantGrowth = Num(6)

\* the sum for i = 1 .. n of D0 * (1 + gShort)^i / (1 + required)^i
RECURSIVE HighGrowthSum(_, _, _, _)
HighGrowthSum(d0, req, gs, n) ==
    IF n <= 0 THEN Zero
    ELSE Add(HighGrowthSum(d0, req, gs, n - 1),
             Div(Mul(d0, Pow(Add(One, gs), n)), Pow(Add(One, req), n)))

\* the two-stage price in closed form
TwoStagePrice(d0, req, gs, gl, n) ==
    Add(HighGrowthSum(d0, req, gs, n),
        Div(Div(Mul(Mul(d0, Pow(Add(One, gs), n)), Add(One, gl)),
                Sub(req, gl)),
            Pow(Add(One, req), n)))

\* C3: with gShort >= 0, 0 <= gLong < required and shortYears a non-negative
\* integer, priceChangingGrowth is the discounted high-growth dividends plus
\* the discounted terminal value; with gShort < 0, gLong < 0 or
\* gLong >= required it is NaN.
C3_ChangingGrowthPrice ==
    /\ Returned /\ Ge(gShort, Zero) /\ Le(Zero, gLong) /\ Lt(gLong, required)
           /\ shortYears >= 0 =>
           /\ IsNum(priceChangingGrowth)
           /\ priceChangingGrowth
                  = TwoStagePrice(D0, required, gShort, gLong, shortYears)
    /\ Returned /\ (Lt(gShort, Zero) \/ Lt(gLong, Zero) \/ Ge(gLong, required))
           => isNaN(priceChangingGrowth)

C3_Witness ==
    /\ Returned
    /\ D0 = One
    /\ required = One
    /\ gShort = One
    /\ gLong = Zero
    /\ shortYears = 3
    /\ priceChangingGrowth = Num(4)

\* every combination of the four violations is produced by some input
AllCombinationsOccur ==
    \A S \in SUBSET Fields :
        \E d0 \in D0Values, req \in RateValues, gc \in RateValues,
           gl \in RateValues :
            DOMAIN ValidationErrors(d0, req, gc, gl) = S

\* C4: the validation map has key D0 iff D0 <= 0, required iff required <= 0,
\* gConst iff gConst >= required, gLong iff gLong >= required, and no other
\* key; all 16 combinations occur, and D0 = -1, required = -1, gConst = 1,
\* gLong = 1 gives the four entries.
C4_ValidationKeys ==
    /\ Returned =>
           /\ ("D0" \in DOMAIN errors) <=> Le(D0, Zero)
           /\ ("required" \in DOMAIN errors) <=> Le(required, Zero)
           /\ ("gConst" \in DOMAIN errors) <=> Ge(gConst, required)
           /\ ("gLong" \in DOMAIN errors) <=> Ge(gLong, required)
           /\ DOMAIN errors \subseteq Fields
    /\ AllCombinationsOccur
    /\ DOMAIN ValidationErrors(Num(-1), Num(-1), One, One) = Fields

C4_Witness ==
    /\ Returned
    /\ Le(D0, Zero)
    /\ Gt(required, Zero)
    /\ Ge(gConst, required)
    /\ Lt(gLong, required)
    /\ DOMAIN errors = {"D0", "gConst"}

\* C5: for each of the three models, whenever the price is NaN the model's
\* value is null in every one of the rows 1 .. 10.
C5_NaNPriceSuppressesSeries ==
    Returned =>
        /\ isNaN(priceNoGrowth) =>
               \A i \in LaterRows : data[i].constDiv = Null
        /\ isNaN(priceConstantGrowth) =>
               \A i \in LaterRows : data[i].constGrow = Null
        /\ isNaN(priceChangingGrowth) =>
               \A i \in LaterRows : data[i].changingGrowth = Null

\* C6: for each of the three models, row 0 holds the negated price when the
\* price is a number and null, not NaN, when the price is NaN.
C6_Row0SignConvention ==
    Returned =>
        /\ data[1].constDiv
               = IF isNaN(priceNoGrowth) THEN Null ELSE Neg(priceNoGrowth)
        /\ data[1].constGrow
               = IF isNaN(priceConstantGrowth) THEN Null
                 ELSE Neg(priceConstantGrowth)
        /\ data[1].changingGrowth
               = IF isNaN(priceChangingGrowth) THEN Null
                 ELSE Neg(priceChangingGrowth)

\* the output is complete: three prices, the validation map and all the rows
CompleteOutput ==
    /\ priceNoGrowth.k \in {"num", "nan"}
    /\ priceConstantGrowth.k \in {"num", "nan"}
    /\ priceChangingGrowth.k \in {"num", "nan"}
    /\ DOMAIN errors \subseteq Fields
    /\ Len(data) = horizonYears + 1

\* C7, as stated: a violated constraint leaves the output complete, makes the
\* price of every model that uses the offending field NaN, and makes no other
\* price NaN; D0 and required are used by all three models.
C7_AsStated ==
    Returned =>
        /\ CompleteOutput
        /\ Ge(gConst, required) => isNaN(priceConstantGrowth)
        /\ Ge(gLong, required) => isNaN(priceChangingGrowth)
        /\ Le(required, Zero) =>
               /\ isNaN(priceNoGrowth)
               /\ isNaN(priceConstantGrowth)
               /\ isNaN(priceChangingGrowth)
        /\ Le(D0, Zero) =>
               /\ isNaN(priceNoGrowth)
               /\ isNaN(priceConstantGrowth)
               /\ isNaN(priceChangingGrowth)

\* C7, amended: a violated constraint leaves the output complete;
\* gConst >= required makes priceConstantGrowth NaN, gLong >= required makes
\* priceChangingGrowth NaN, required <= 0 makes all three prices NaN, and
\* D0 <= 0 makes no price NaN.  Each price is NaN for reasons of its own
\* model only: priceNoGrowth iff required <= 0, priceConstantGrowth iff
\* gConst >= required or gConst < 0, priceChangingGrowth iff
\* gLong >= required, gLong < 0 or gShort < 0.
C7_ViolationsAndNaN ==
    Returned =>
        /\ CompleteOutput
        /\ Ge(gConst, required) => isNaN(priceConstantGrowth)
        /\ Ge(gLong, required) => isNaN(priceChangingGrowth)
        /\ Le(required, Zero) =>
               /\ isNaN(priceNoGrowth)
               /\ isNaN(priceConstantGrowth)
               /\ isNaN(priceChangingGrowth)
        /\ isNaN(priceNoGrowth) <=> Le(required, Zero)
        /\ isNaN(priceConstantGrowth)
               <=> (Ge(gConst, required) \/ Lt(gConst, Zero))
        /\ isNaN(priceChangingGrowth)
               <=> (Ge(gLong, required) \/ Lt(gLong, Zero) \/ Lt(gShort, Zero))

C7_Witness ==
    /\ Returned
    /\ DOMAIN errors = {"D0", "gConst"}
    /\ D0 = Num(-1)
    /\ required = Rat(1, 2)
    /\ priceNoGrowth = Num(-2)
    /\ isNaN(priceConstantGrowth)
    /\ IsNum(priceChangingGrowth)

\* C8: with gConst >= required, the boundary gConst = required included,
\* priceConstantGrowth is NaN and the validation map has a gConst entry.
C8_GordonInvalidity ==
    /\ Returned /\ Ge(gConst, required) =>
           /\ isNaN(priceConstantGrowth)
           /\ "gConst" \in DOMAIN errors
    /\ isNaN(PriceConstantGrowthOf(Num(5), Rat(1, 20), Rat(1, 20)))
    /\ "gConst" \in DOMAIN ValidationErrors(Num(5), Rat(1, 20), Rat(1, 20),
                                            Rat(3, 100))

C8_Witness ==
    /\ Returned
    /\ D0 = Num(2)
    /\ required = Rat(1, 2)
    /\ gConst = required
    /\ isNaN(priceConstantGrowth)
    /\ "gConst" \in DOMAIN errors

\* C9, as stated: with gShort = gLong = gConst and any shortYears,
\* priceChangingGrowth equals priceConstantGrowth.
C9_AsStated ==
    Returned /\ gShort = gConst /\ gLong = gConst =>
        priceChangingGrowth = priceConstantGrowth

\* C9, amended: with gShort = gLong = gConst and shortYears a non-negative
\* integer, priceChangingGrowth equals priceConstantGrowth, and both are NaN
\* together when the rate is outside [0, required).
C9_TwoStageContinuity ==
    Returned /\ gShort = gConst /\ gLong = gConst /\ shortYears >= 0 =>
        /\ priceChangingGrowth = priceConstantGrowth
        /\ isNaN(priceChangingGrowth)
               <=> ~(Le(Zero, gConst) /\ Lt(gConst, required))

C9_Witness ==
    /\ Returned
    /\ gShort = gConst
    /\ gLong = gConst
    /\ gConst = Rat(1, 2)
    /\ required = One
    /\ D0 = Num(2)
    /\ shortYears = 3
    /\ priceChangingGrowth = Num(6)
    /\ priceConstantGrowth = Num(6)

\* the decimal strings of 0 .. 10
YearLabels == <<"0", "1", "2", "3", "4", "5", "6", "7", "8", "9", "10">>

\* C10: for every input, valid or not, data has exactly 11 rows, in order,
\* with year = 0, 1, ..., 10 and yearLabel the decimal string of year.
C10_RowCount ==
    Returned =>
        /\ Len(data) = 11
        /\ \A i \in 1 .. 11 :
               /\ data[i].year = i - 1
               /\ data[i].yearLabel = YearLabels[i]

C10_Witness ==
    /\ Returned
    /\ DOMAIN errors = Fields
    /\ isNaN(priceNoGrowth)
    /\ Len(data) = 11
    /\ data[11].yearLabel = "10"

\* C11: when priceConstantGrowth is a number, constGrow in row t is
\* D0 * (1 + gConst)^t for every t in 1 .. 10.
C11_ConstGrowRows ==
    Returned /\ IsNum(priceConstantGrowth) =>
        \A i \in 1 .. 10 :
            data[i + 1].constGrow = Mul(D0, Pow(Add(One, gConst), i))

C11_Witness ==
    /\ Returned
    /\ D0 = One
    /\ required = One
    /\ gConst = Rat(1, 2)
    /\ IsNum(priceConstantGrowth)
    /\ data[3].constGrow = Rat(9, 4)
    /\ data[11].constGrow = Rat(59049, 1024)

\* C12: when priceChangingGrowth is a number, changingGrowth in row t is
\* D0 * (1 + gShort)^t for t <= shortYears and
\* D0 * (1 + gShort)^shortYears * (1 + gLong)^(t - shortYears) for
\* t > shortYears; with shortYears >= 10 every row uses gShort only, and the
\* two branches agree at t = shortYears.
C12_ChangingGrowthRows ==
    Returned /\ IsNum(priceChangingGrowth) =>
        /\ \A i \in 1 .. 10 :
               data[i + 1].changingGrowth
                   = IF i <= shortYears
                     THEN Mul(D0, Pow(Add(One, gShort), i))
                     ELSE Mul(Mul(D0, Pow(Add(One, gShort), shortYears)),
                              Pow(Add(One, gLong), i - shortYears))
        /\ shortYears >= 10 =>
               \A i \in 1 .. 10 :
                   data[i + 1].changingGrowth
                       = Mul(D0, Pow(Add(One, gShort), i))
        /\ shortYears \in 1 .. 10 =>
               data[shortYears + 1].changingGrowth
                   = Mul(Mul(D0, Pow(Add(One, gShort), shortYears)),
                         Pow(Add(One, gLong), 0))

C12_Witness ==
    /\ Returned
    /\ D0 = One
    /\ required = One
    /\ gShort = One
    /\ gLong = Rat(1, 2)
    /\ shortYears = 3
    /\ data[4].changingGrowth = Num(8)
    /\ data[5].changingGrowth = Num(12)

\* C13: the call raises nothing and enters no error state, for any numeric
\* input (zero or negative rates, D0 <= 0 and shortYears = 0 included): it is
\* always at one of its statements, its accumulator is always a number, every
\* returned price is a number or NaN, every mathematically invalid condition
\* gives a NaN price, and NaN is distinct from a valid price of zero.
C13_NoErrorState ==
    /\ pc \in {"validate", "prices", "loop", "row0", "rows", "done"}
    /\ IsNum(pvHighGrowth)
    /\ Returned =>
           /\ priceNoGrowth.k \in {"num", "nan"}
           /\ priceConstantGrowth.k \in {"num", "nan"}
           /\ priceChangingGrowth.k \in {"num", "nan"}
           /\ Le(required, Zero) => isNaN(priceNoGrowth)
           /\ (Lt(gConst, Zero) \/ Ge(gConst, required))
                  => isNaN(priceConstantGrowth)
           /\ (Lt(gShort, Zero) \/ Lt(gLong, Zero) \/ Ge(gLong, required))
                  => isNaN(priceChangingGrowth)
           /\ D0 = Zero /\ Gt(required, Zero) =>
                  /\ priceNoGrowth = Zero
                  /\ ~isNaN(priceNoGrowth)

C13_Witness ==
    /\ Returned
    /\ D0 = Zero
    /\ required = Rat(1, 2)
    /\ gConst = Rat(-1, 2)
    /\ gShort = Zero
    /\ gLong = Zero
    /\ shortYears = 0
    /\ priceNoGrowth = Zero
    /\ isNaN(priceConstantGrowth)
    /\ priceChangingGrowth = Zero

\* C14: no Gordon-growth division is evaluated with a zero or negative
\* denominator: a price is a quotient only when its denominator (required,
\* required - gConst, required - gLong) is positive, the terminal value is
\* computed only when required - gLong > 0, and in every other case the
\* price is NaN.
C14_PositiveDenominators ==
    /\ pc = "loop" => Gt(Sub(required, gLong), Zero)
    /\ Returned =>
           /\ IsNum(priceNoGrowth) => Gt(required, Zero)
           /\ IsNum(priceConstantGrowth) => Gt(Sub(required, gConst), Zero)
           /\ IsNum(priceChangingGrowth) => Gt(Sub(required, gLong), Zero)
           /\ Le(required, Zero) => isNaN(priceNoGrowth)
           /\ Le(Sub(required, gConst), Zero) => isNaN(priceConstantGrowth)
           /\ Le(Sub(required, gLong), Zero) => isNaN(priceChangingGrowth)

C14_Witness ==
    /\ Returned
    /\ D0 = One
    /\ required = Rat(1, 2)
    /\ gConst = required
    /\ gLong = required
    /\ gShort = Zero
    /\ priceNoGrowth = Num(2)
    /\ isNaN(priceConstantGrowth)
    /\ isNaN(priceChangingGrowth)

\* the turns the high-growth loop has still to make
HighGrowthTurnsLeft == IF t <= shortYears THEN shortYears - t + 1 ELSE 0

\* the turns the row loop has still to make
RowTurnsLeft == IF year <= horizonYears THEN horizonYears - year + 1 ELSE 0

\* more than the turns of either loop
TurnsBound == MaxShortYears + horizonYears + 2

\* a variant of the call: the statements and loop turns still ahead of it
Measure ==
    CASE pc = "validate" -> 5 * TurnsBound
      [] pc = "prices" -> 4 * TurnsBound
      [] pc = "loop" -> 3 * TurnsBound + HighGrowthTurnsLeft
      [] pc = "row0" -> 2 * TurnsBound
      [] pc = "rows" -> TurnsBound + RowTurnsLeft
      [] pc = "done" -> 0

\* C16: every invocation terminates: each step of the call lowers a
\* non-negative measure that is 0 only at the return; the high-growth loop
\* makes exactly shortYears turns when it is entered with shortYears >= 1 and
\* none when shortYears < 1, and the row loop makes exactly 10 turns.
C16_Termination ==
    /\ [](Measure >= 0 /\ (Measure = 0 <=> Returned))
    /\ [][Measure' < Measure]_vars
    /\ [](pc \in {"row0", "rows", "done"} =>
             t - 1 = IF Lt(gLong, required) /\ Ge(gLong, Zero)
                        /\ Ge(gShort, Zero) /\ shortYears >= 1
                     THEN shortYears ELSE 0)
    /\ [](Returned => year - 1 = 10 /\ Len(data) = 10 + 1)

C16_Witness ==
    /\ Returned
    /\ shortYears = 3
    /\ IsNum(priceChangingGrowth)
    /\ t = 4
    /\ year = 11

\* C15: two calls with identical inputs return identical outputs, whatever
\* calls were made in between: what a call returns (the prices, the 11 rows,
\* the validation map) is a function of its six arguments alone, whatever the
\* calls before it left behind, and no statement of a call changes its
\* arguments.
C15_Idempotence ==
    /\ [](Returned =>
             Output = buildDividendSeries(D0, required, gConst, gShort,
                                          gLong, shortYears))
    /\ [][Call \/ UNCHANGED inputs]_vars

\* a call that has returned after an earlier call left another accumulator,
\* other prices and other rows behind
C15_Witness ==
    /\ Returned
    /\ D0 = One
    /\ required = One
    /\ gConst = Rat(1, 2)
    /\ gShort = One
    /\ gLong = Zero
    /\ shortYears = 0
    /\ pvHighGrowth = Zero
    /\ t = 1
    /\ priceChangingGrowth = One
    /\ priceConstantGrowth = Num(3)

\* C17: in every state of a component, after any edits of the fields and any
\* choices of the model, the results it renders are buildDividendSeries of the
\* current values of the six inputs, and the price panels on the page are
\* those of these results: no edit leaves the results of older inputs.
C17_ResultsAreCurrent ==
    /\ Output = Results(ui)
    /\ shown = Render(ui, Results(ui))

\* App after a model was chosen and the years typed: three rows of high
\* growth in the results
C17_Witness ==
    /\ ui.variant = "App"
    /\ ui.selectedModel = "changing"
    /\ ui.shortYears = Num(2)
    /\ ui.D0 = Rat(1, 2)
    /\ errors = <<>>
    /\ IsNum(priceChangingGrowth)
    /\ data[3].changingGrowth # data[3].constGrow
    /\ shown.changing # <<>>

\* C18: in each of the components the last call of the engine has required,
\* gConst, gShort and gLong one hundredth of the percentage in the field, and
\* D0 and shortYears as they are in the field.
C18_PercentagesDivided ==
    /\ Mul(required, Num(100)) = ui.req
    /\ Mul(gConst, Num(100)) = ui.gConst
    /\ Mul(gShort, Num(100)) = ui.gShort
    /\ Mul(gLong, Num(100)) = ui.gLong
    /\ D0 = ui.D0
    /\ Num(shortYears) = ui.shortYears

\* part_002 after 0.5 was typed as the dividend, with 50 per cent in two
\* fields and -50 per cent in another
C18_Witness ==
    /\ ui.variant = "part_002"
    /\ ui.D0 = Rat(1, 2)
    /\ ui.req = Num(50)
    /\ required = Rat(1, 2)
    /\ ui.gLong = Num(50)
    /\ gLong = Rat(1, 2)
    /\ ui.gConst = Num(-50)
    /\ gConst = Rat(-1, 2)

\* C19: the shortYears a component passes to the engine is a whole number
\* that is not negative, whatever is typed as the years of high growth.
C19_SanitizedYears ==
    /\ ui.shortYears.d = 1
    /\ shortYears >= 0

\* C20: in each of the components a price panel on the page reads "Invalid"
\* when the price of its model is NaN and reads the price as US dollars, not
\* "Invalid", when the price is a number.
C20_PanelTexts ==
    \A m \in Models :
        shown[m] # <<>> =>
            LET price == getAllPrices(Output)[m]
            IN /\ Len(shown[m]) = 1
               /\ isNaN(price) => shown[m][1] = "Invalid"
               /\ IsNum(price) => /\ shown[m][1] = fmtUSD(price)
                                  /\ shown[m][1] # "Invalid"

\* part_001 with the price 0 of a dividend of 0 and the NaN of a negative
\* growth rate side by side, and a price that is rounded to the cent
C20_Witness ==
    /\ ui.variant = "part_001"
    /\ priceNoGrowth = Num(0)
    /\ shown.constant = <<"$0.00">>
    /\ isNaN(priceConstantGrowth)
    /\ shown.growth = <<"Invalid">>

\* C21: App shows the results panel and the chart exactly when the
\* validation map of the current results is empty, and the list of messages
\* and the card "Validation Required" in their place when it is not; the
\* engine has returned its whole output in both cases; the three other
\* components show results and chart whatever the validation map.
C21_ErrorGating ==
    LET valid == DOMAIN errors = {}
        panels == {m \in Models : shown[m] # <<>>}
    IN /\ Len(data) = 11
       /\ \A m \in Models : getAllPrices(Output)[m].k \in {"num", "nan"}
       /\ shown.errorList = {ErrorMessage[f] : f \in DOMAIN errors}
       /\ ui.variant = "App" =>
             /\ shown.chart <=> valid
             /\ panels # {} <=> valid
             /\ shown.validationRequired <=> ~valid
             /\ ~valid => shown.errorList # {} /\ shown.tooltip = <<>>
       /\ ui.variant # "App" =>
             /\ shown.chart
             /\ panels # {}
             /\ ~shown.validationRequired
             /\ Len(shown.tooltip) = 11

\* App after a dividend of 0 was typed and a model chosen: two messages and
\* the card, neither panel nor chart
C21_Witness ==
    /\ ui.variant = "App"
    /\ ui.selectedModel = "growth"
    /\ ui.D0 = Num(0)
    /\ DOMAIN errors = {"D0", "gLong"}
    /\ shown.validationRequired
    /\ Cardinality(shown.errorList) = 2
    /\ ~shown.chart
    /\ Len(data) = 11

\* C30: wherever the chart is on the page, the tooltip gives "Invalid" for a
\* cell only when the cell is null or NaN; a cell that is a number, 0
\* included, is given as an amount of US dollars.
C30_TooltipTexts ==
    shown.chart =>
        \A i \in DOMAIN shown.tooltip :
            \A k \in DOMAIN shown.tooltip[i] :
                /\ shown.tooltip[i][k] = "Invalid" =>
                       data[i][k].k \in {"null", "nan"}
                /\ IsNum(data[i][k]) =>
                       shown.tooltip[i][k] = fmtUSD(MathAbs(data[i][k]))

\* the places of UseMemoDeps in which two states of a component differ
ChangedInputs(u, v) == {i \in 1 .. 6 : UseMemoDeps(u)[i] # UseMemoDeps(v)[i]}

\* C29: in App and part_003 selectedModel is "constant" at first and always
\* one of "all", "constant", "growth", "changing", with an entry of
\* MODEL_CONFIG whenever it is not "all"; a step that changes it changes none
\* of the six inputs and nothing of the results, and a step that changes an
\* input changes that one input alone and not selectedModel.
C29_SelectorFrame ==
    /\ ui.variant \in WithSelector => ui.selectedModel = "constant"
    /\ [](ui.variant \in WithSelector =>
             /\ ui.selectedModel \in {"all", "constant", "growth", "changing"}
             /\ ui.selectedModel # "all" => ui.selectedModel \in DOMAIN dataKey)
    /\ [][ui.variant \in WithSelector =>
             /\ ui'.variant = ui.variant
             /\ ui'.selectedModel # ui.selectedModel =>
                    /\ ChangedInputs(ui, ui') = {}
                    /\ Output' = Output
                    /\ inputs' = inputs
             /\ ChangedInputs(ui, ui') # {} =>
                    /\ Cardinality(ChangedInputs(ui, ui')) = 1
                    /\ ui'.selectedModel = ui.selectedModel]_vars

\* part_003 showing all three models after "All" was clicked and the years
\* of high growth were set to 0
C29_Witness ==
    /\ ui.variant = "part_003"
    /\ ui.selectedModel = "all"
    /\ ui.shortYears = Num(0)
    /\ shortYears = 0
    /\ \A m \in Models : shown[m] # <<>>

\* C23: when the validation map is empty, which is when D0 > 0, required > 0,
\* gConst < required and gLong < required, priceNoGrowth is a number above 0,
\* priceConstantGrowth is NaN exactly when gConst < 0 and priceChangingGrowth
\* is NaN exactly when gLong < 0 or gShort < 0; an entry for required means
\* three NaN prices and an entry for gLong a NaN priceChangingGrowth.
C23_ValidInputsAndPrices ==
    Returned =>
        /\ DOMAIN errors = {} <=>
               /\ Gt(D0, Zero)
               /\ Gt(required, Zero)
               /\ Lt(gConst, required)
               /\ Lt(gLong, required)
        /\ DOMAIN errors = {} =>
               /\ IsNum(priceNoGrowth)
               /\ Gt(priceNoGrowth, Zero)
               /\ isNaN(priceConstantGrowth) <=> Lt(gConst, Zero)
               /\ ~isNaN(priceConstantGrowth) => IsNum(priceConstantGrowth)
               /\ isNaN(priceChangingGrowth)
                      <=> (Lt(gLong, Zero) \/ Lt(gShort, Zero))
               /\ ~isNaN(priceChangingGrowth) => IsNum(priceChangingGrowth)
        /\ "required" \in DOMAIN errors =>
               /\ isNaN(priceNoGrowth)
               /\ isNaN(priceConstantGrowth)
               /\ isNaN(priceChangingGrowth)
        /\ "gLong" \in DOMAIN errors => isNaN(priceChangingGrowth)

\* a call without validation entry whose negative gShort alone makes the
\* two-stage price NaN
C23_Witness ==
    /\ Returned
    /\ DOMAIN errors = {}
    /\ Lt(gShort, Zero)
    /\ Ge(gLong, Zero)
    /\ Ge(gConst, Zero)
    /\ isNaN(priceChangingGrowth)
    /\ IsNum(priceConstantGrowth)
    /\ shortYears = 2

\* the sum for i = 1 .. n of row i of the changingGrowth column over
\* (1 + required)^i
RECURSIVE DiscountedRows(_)
DiscountedRows(n) ==
    IF n <= 0 THEN Zero
    ELSE Add(DiscountedRows(n - 1),
             Div(data[n + 1].changingGrowth, Pow(Add(One, required), n)))

Min(a, b) == IF a <= b THEN a ELSE b

\* C25: when priceChangingGrowth is a number and shortYears is a whole number
\* not below 0, row i of the changingGrowth column is, for i in
\* 1 .. min(shortYears, 10), the dividend that turn i of the high-growth loop
\* discounts, and row shortYears + 1, when there is one, is the terminal
\* dividend D0 * (1 + gShort)^shortYears * (1 + gLong) of the terminal value;
\* so the price is the discounted rows plus that row over required - gLong,
\* discounted.
C25_PriceAndSeriesAgree ==
    Returned /\ IsNum(priceChangingGrowth) /\ shortYears >= 0 =>
        /\ \A i \in 1 .. Min(shortYears, 10) :
               data[i + 1].changingGrowth
                   = Mul(DiscountedDividend(D0, required, gShort, i),
                         Pow(Add(One, required), i))
        /\ shortYears <= 10 => pvHighGrowth = DiscountedRows(shortYears)
        /\ shortYears + 1 <= 10 =>
               /\ data[shortYears + 2].changingGrowth
                      = Mul(Mul(D0, Pow(Add(One, gShort), shortYears)),
                            Add(One, gLong))
               /\ Mul(Mul(Sub(priceChangingGrowth, pvHighGrowth),
                          Pow(Add(One, required), shortYears)),
                      Sub(required, gLong))
                      = data[shortYears + 2].changingGrowth

\* three years of high growth at 100 per cent, then 50 per cent
C25_Witness ==
    /\ Returned
    /\ shortYears = 3
    /\ D0 = One
    /\ gShort = One
    /\ gLong = Rat(1, 2)
    /\ required = One
    /\ data[4].changingGrowth = Num(8)
    /\ data[5].changingGrowth = Num(12)
    /\ pvHighGrowth = Num(3)
    /\ priceChangingGrowth = Num(6)

\* C26: with shortYears = 0, gShort >= 0 and 0 <= gLong < required the
\* high-growth loop adds nothing, priceChangingGrowth is the constant-growth
\* price of gConst = gLong, D0 * (1 + gLong) / (required - gLong), and row i
\* of the changingGrowth column is D0 * (1 + gLong)^i for i in 1 .. 10.
C26_NoHighGrowthYears ==
    Returned /\ shortYears = 0 /\ Ge(gShort, Zero) /\ Le(Zero, gLong)
        /\ Lt(gLong, required) =>
        /\ pvHighGrowth = Zero
        /\ t = 1
        /\ priceChangingGrowth = PriceConstantGrowthOf(D0, required, gLong)
        /\ Mul(priceChangingGrowth, Sub(required, gLong))
               = Mul(D0, Add(One, gLong))
        /\ \A i \in LaterRows :
               data[i].changingGrowth = Mul(D0, Pow(Add(One, gLong), i - 1))

C26_Witness ==
    /\ Returned
    /\ shortYears = 0
    /\ D0 = Num(2)
    /\ required = One
    /\ gShort = One
    /\ gLong = Rat(1, 2)
    /\ gConst = Zero
    /\ priceChangingGrowth = Num(6)
    /\ priceConstantGrowth = Num(2)
    /\ data[3].changingGrowth = Rat(9, 2)

\* the three columns of dividends
Columns == {"constDiv", "constGrow", "changingGrowth"}

\* C27: with D0 > 0 and shortYears a whole number not below 0, every price
\* that is a number is above 0, every value of row 0 that is not null is a
\* number below 0 and every value of rows 1 .. 10 that is not null is a
\* number above 0.
C27_SignsOfCashFlows ==
    Returned /\ Gt(D0, Zero) /\ shortYears >= 0 =>
        /\ IsNum(priceNoGrowth) => Gt(priceNoGrowth, Zero)
        /\ IsNum(priceConstantGrowth) => Gt(priceConstantGrowth, Zero)
        /\ IsNum(priceChangingGrowth) => Gt(priceChangingGrowth, Zero)
        /\ \A c \in Columns :
               /\ data[1][c] # Null =>
                      IsNum(data[1][c]) /\ Lt(data[1][c], Zero)
               /\ \A i \in LaterRows :
                      data[i][c] # Null =>
                          IsNum(data[i][c]) /\ Gt(data[i][c], Zero)

\* C28: with gConst = 0 and required > 0, priceConstantGrowth is
\* priceNoGrowth and the constGrow column is the constDiv column in all 11
\* rows; with D0 > 0 and 0 <= gConst < required, priceConstantGrowth is not
\* below priceNoGrowth.
C28_ZeroGrowthIsNoGrowth ==
    /\ Returned /\ gConst = Zero /\ Gt(required, Zero) =>
           /\ IsNum(priceConstantGrowth)
           /\ priceConstantGrowth = priceNoGrowth
           /\ \A i \in 1 .. (horizonYears + 1) :
                  data[i].constGrow = data[i].constDiv
    /\ Returned /\ Gt(D0, Zero) /\ Le(Zero, gConst) /\ Lt(gConst, required) =>
           /\ IsNum(priceConstantGrowth)
           /\ IsNum(priceNoGrowth)
           /\ Ge(priceConstantGrowth, priceNoGrowth)

C28_Witness ==
    /\ Returned
    /\ gConst = Zero
    /\ required = Rat(1, 2)
    /\ D0 = Num(2)
    /\ priceNoGrowth = Num(4)
    /\ priceConstantGrowth = Num(4)
    /\ data[1].constGrow = Num(-4)
    /\ data[11].constGrow = Num(2)

\* column c of the rows
Column(rows, c) == [i \in 1 .. Len(rows) |-> rows[i][c]]

\* C24: each price and its column depend on the parameters of its own model
\* alone: a call with the same D0 and required and any gConst, gShort, gLong
\* and shortYears returns the same priceNoGrowth and constDiv column; a call
\* with the same D0, required and gConst returns the same
\* priceConstantGrowth and constGrow column; a call with the same D0,
\* required, gShort, gLong and shortYears returns the same
\* priceChangingGrowth and changingGrowth column.
C24_ModelsAreSeparate ==
    Returned =>
        /\ \A gc \in CallGConstValues, gs \in CallGShortValues,
              gl \in CallGLongValues, sy \in CallShortYearsValues :
               LET other == buildDividendSeries(D0, required, gc, gs, gl, sy)
               IN /\ other.priceNoGrowth = priceNoGrowth
                  /\ Column(other.data, "constDiv") = Column(data, "constDiv")
        /\ \A gs \in CallGShortValues, gl \in CallGLongValues,
              sy \in CallShortYearsValues :
               LET other ==
                       buildDividendSeries(D0, required, gConst, gs, gl, sy)
               IN /\ other.priceConstantGrowth = priceConstantGrowth
                  /\ Column(other.data, "constGrow")
                         = Column(data, "constGrow")
        /\ \A gc \in CallGConstValues :
               LET other == buildDividendSeries(D0, required, gc, gShort,
                                                gLong, shortYears)
               IN /\ other.priceChangingGrowth = priceChangingGrowth
                  /\ Column(other.data, "changingGrowth")
                         = Column(data, "changingGrowth")

\* a call whose constant-growth price is NaN and whose two other prices are
\* numbers
C24_Witness ==
    /\ Returned
    /\ D0 = Num(2)
    /\ required = One
    /\ gConst = Rat(-1, 2)
    /\ gShort = One
    /\ gLong = Rat(1, 2)
    /\ shortYears = 2
    /\ isNaN(priceConstantGrowth)
    /\ priceNoGrowth = Num(2)
    /\ IsNum(priceChangingGrowth)
    /\ data[2].constGrow = Null
    /\ data[2].constDiv = Num(2)

==========================================================================
